---- MODULE Spec2Model ----
(***************************************************************************)
(* Model of validation_data.py: the loader that reads a folder of          *)
(* validation (fare-tap) CSV files and inserts routes, vehicle types,       *)
(* depots, vehicles, vehicle-route pairs and validation events into the    *)
(* warehouse schema "metabase".                                             *)
(*                                                                         *)
(* Text values are sequences of Unicode code points, so that TRIM,         *)
(* SUBSTRING, the cast to USMALLINT and ORDER BY are computed as the       *)
(* database computes them.  The empty sequence is SQL NULL: read_csv       *)
(* turns an empty field into NULL, so no column ever holds ''.             *)
(***************************************************************************)
EXTENDS Bags, FiniteSets, Integers, Sequences, TLC

\* ---------------------------------------------------------------- bounds
\* rows of one input file set, beside the two fixed files
MaxRows == 2
\* invocations of main against the same warehouse
MaxRuns == 3
\* entries of a download directory
MaxEntries == 3
\* bytes of the text of an extracted file
MaxBytes == 2

\* ---------------------------------------------------------------- values
NULL == <<>>

\* "2 parks"
Parks2 == <<50, 32, 112, 97, 114, 107, 115>>
\* "7 parks"
Parks7 == <<55, 32, 112, 97, 114, 107, 115>>
\* "2 depo": another depot name with the same first character as "2 parks"
Parks2Depo == <<50, 32, 100, 101, 112, 111>>
\* "Depo 7": a depot name whose first character is no digit
ParksDepo == <<68, 101, 112, 111, 32, 55>>
\* " ": a field of blanks only
Blank == <<32>>
\* "Trolejbuss"
Trolejbuss == <<84, 114, 111, 108, 101, 106, 98, 117, 115, 115>>
\* "Autobuss"
Autobuss == <<65, 117, 116, 111, 98, 117, 115, 115>>
\* "29299"
G29299 == <<50, 57, 50, 57, 57>>
\* "29320"
G29320 == <<50, 57, 51, 50, 48>>
\* "71084"
G71084 == <<55, 49, 48, 56, 52>>
\* "30001"
G30001 == <<51, 48, 48, 48, 49>>
\* "71085"
G71085 == <<55, 49, 48, 56, 53>>
\* "71087"
G71087 == <<55, 49, 48, 56, 55>>
\* "Centraltirgus - Mezciems" (a-macron 257, z-caron 382)
NosTr35 == <<67, 101, 110, 116, 114, 257, 108, 116, 105, 114, 103, 117, 115, 32, 45, 32, 77, 101, 382, 99, 105, 101, 109, 115>>
\* "Centraltirgus - Berguciems" (a-macron 257, g-cedilla 291)
NosTr31 == <<67, 101, 110, 116, 114, 257, 108, 116, 105, 114, 103, 117, 115, 32, 45, 32, 66, 101, 114, 291, 117, 99, 105, 101, 109, 115>>
\* "Abrenes iela -Mezaparks" (z-caron 382)
NosA9 == <<65, 98, 114, 101, 110, 101, 115, 32, 105, 101, 108, 97, 32, 45, 77, 101, 382, 97, 112, 97, 114, 107, 115>>
\* "Mezciems - Centraltirgus": route Tr35 under another display name
NosTr35Alt == <<77, 101, 382, 99, 105, 101, 109, 115, 32, 45, 32, 67, 101, 110, 116, 114, 257, 108, 116, 105, 114, 103, 117, 115>>
\* "Tr35"
Tr35 == <<84, 114, 51, 53>>
\* "Tr31"
Tr31 == <<84, 114, 51, 49>>
\* "A9"
A9 == <<65, 57>>
\* "Forth"
Forth == <<70, 111, 114, 116, 104>>
\* "Back"
Back == <<66, 97, 99, 107>>
\* "3645190"
T3645190 == <<51, 54, 52, 53, 49, 57, 48>>
\* "3626095"
T3626095 == <<51, 54, 50, 54, 48, 57, 53>>
\* "3433289"
T3433289 == <<51, 52, 51, 51, 50, 56, 57>>
\* "3623389"
T3623389 == <<51, 54, 50, 51, 51, 56, 57>>
\* "3623009"
T3623009 == <<51, 54, 50, 51, 48, 48, 57>>
\* "3645191"
T3645191 == <<51, 54, 52, 53, 49, 57, 49>>

\* a TIMESTAMP value of 01.09.2025: <<year, month, day, hour, minute, second>>
Ts(h, m, s) == <<2025, 9, 1, h, m, s>>

\* one row of the relation read_csv returns, columns as in read_csv_columns
Row(ier, parks, veids, garnr, nos, tm, virz, talons, laiks) ==
    [Ier_ID |-> ier, Parks |-> parks, TranspVeids |-> veids, GarNr |-> garnr,
     MarsrNos |-> nos, TMarsruts |-> tm, Virziens |-> virz,
     ValidTalonaId |-> talons, Laiks |-> laiks]

\* the five rows of the sample file
Sample1 == Row(175426, Parks2, Trolejbuss, G29299, NosTr35, Tr35, Forth, T3645190, Ts(0, 2, 20))
Sample2 == Row(192554, Parks2, Trolejbuss, G29320, NosTr31, Tr31, Forth, T3626095, Ts(0, 8, 33))
Sample3 == Row(203671, Parks7, Autobuss, G71084, NosA9, A9, Forth, T3433289, Ts(0, 55, 3))
Sample4 == Row(203744, Parks7, Autobuss, G71084, NosA9, A9, Forth, T3623389, Ts(3, 38, 2))
Sample5 == Row(204166, Parks7, Autobuss, G71084, NosA9, A9, Forth, T3623009, Ts(1, 27, 6))

sample_csv == {Sample1, Sample2, Sample3, Sample4, Sample5}

\* further rows a file can hold
\* the tap of Sample1 exported a second time under another Ier_ID
RepeatedTap == Row(175427, Parks2, Trolejbuss, G29299, NosTr35, Tr35, Forth, T3645190, Ts(0, 2, 20))
\* route Tr35 under another display name, in a row with no vehicle number
RenamedRoute == Row(192555, Parks2, Trolejbuss, NULL, NosTr35Alt, Tr35, Back, T3645191, Ts(0, 9, 0))
\* vehicle 29299 of Sample1 reported from another depot
MovedVehicle == Row(175428, Parks7, Trolejbuss, G29299, NosTr35, Tr35, Back, T3645191, Ts(0, 30, 0))
\* a depot whose name starts like "2 parks"
SamePrefixDepot == Row(210001, Parks2Depo, Trolejbuss, G30001, NosTr35, Tr35, Forth, T3645191, Ts(2, 0, 0))
\* a depot whose name does not start with a digit
NoDigitDepot == Row(210002, ParksDepo, Autobuss, G71087, NosA9, A9, Forth, T3645191, Ts(2, 1, 0))
\* a vehicle whose depot field is blank
BlankDepot == Row(210003, Blank, Autobuss, G71085, NosA9, A9, Forth, T3645191, Ts(2, 2, 0))
\* a tap of vehicle 71084 of Sample3 with no vehicle type and no route code
NoTypeNoRoute == Row(210005, Parks7, NULL, G71084, NosA9, NULL, Back, T3645191, Ts(2, 4, 0))

Catalogue ==
    {Sample1, Sample3, RepeatedTap, RenamedRoute, MovedVehicle,
     SamePrefixDepot, NoDigitDepot, BlankDepot, NoTypeNoRoute}

\* a file in which vehicle 29299 is reported from two depots and vehicle
\* 71085 has a blank depot
moved_csv == {Sample1, MovedVehicle, BlankDepot}

\* the file sets main is run on
FileSets ==
    {fs \in SUBSET Catalogue : Cardinality(fs) <= MaxRows} \cup {sample_csv, moved_csv}

\* ------------------------------------------------------- SQL functions
\* TRIM(s): s without its leading and trailing spaces
RECURSIVE LTrim(_)
LTrim(s) == IF s # <<>> /\ Head(s) = 32 THEN LTrim(Tail(s)) ELSE s

RECURSIVE RTrim(_)
RTrim(s) == IF s # <<>> /\ s[Len(s)] = 32 THEN RTrim(SubSeq(s, 1, Len(s) - 1)) ELSE s

Trim(s) == RTrim(LTrim(s))

\* col IS NOT NULL AND LENGTH(TRIM(col)) > 0
NotBlank(s) == s # NULL /\ Len(Trim(s)) > 0

\* SUBSTRING(s, 1, 2)
Substring12(s) == SubSeq(s, 1, IF Len(s) < 2 THEN Len(s) ELSE 2)

\* SUBSTRING(s, 1, 1)
Substring11(s) == SubSeq(s, 1, IF Len(s) < 1 THEN Len(s) ELSE 1)

\* a < b in the binary collation ORDER BY uses for VARCHAR
RECURSIVE StrLess(_, _)
StrLess(a, b) ==
    IF b = <<>> THEN FALSE
    ELSE IF a = <<>> THEN TRUE
    ELSE IF Head(a) # Head(b) THEN Head(a) < Head(b)
    ELSE StrLess(Tail(a), Tail(b))

\* the value of a string of decimal digits, -1 when some character is no digit
RECURSIVE Digits(_, _)
Digits(s, acc) ==
    IF s = <<>> THEN acc
    ELSE IF Head(s) < 48 \/ Head(s) > 57 THEN -1
    ELSE Digits(Tail(s), 10 * acc + (Head(s) - 48))

\* CAST(s AS USMALLINT), the cast an INSERT into an id column applies:
\* -1 stands for the conversion error
CastUSmallInt(s) ==
    IF s = <<>> THEN -1
    ELSE IF Digits(s, 0) > 65535 THEN -1
    ELSE Digits(s, 0)

\* ROW_NUMBER() OVER (ORDER BY name) of name among names
RowNumber(name, names) == 1 + Cardinality({m \in names : StrLess(m, name)})

\* a PRIMARY KEY or UNIQUE constraint on the columns cols rejects the rows
\* new: one of them repeats the key of a stored row or of another row of new
KeyViolated(old, new, cols) ==
    \E a \in new :
        \/ \E b \in old : \A c \in cols : b[c] = a[c]
        \/ \E b \in new : b # a /\ \A c \in cols : b[c] = a[c]

\* a FOREIGN KEY constraint on the column col rejects the rows new: col of
\* one of them is no key of the referenced table
ForeignKeyViolated(new, col, keys) == \E a \in new : a[col] \notin keys

\* --------------------------------------------------------------- state
VARIABLES
    schema,                      \* the tables of schema metabase exist
    Marsruts_lookup,             \* rows [TMarsruts, MarsrNos]
    TranspVeids_lookup,          \* rows [id, TranspVeids]
    Parks_lookup,                \* rows [id, Parks]
    Transports_lookup,           \* rows [GarNr, TranspVeids_id, Parks_id]
    Transports_Marsruts_lookup,  \* rows [GarNr, TMarsruts]
    validacijas,                 \* bag of rows [GarNr, Virziens, ValidTalonaId, Laiks]
    validation_files,            \* what the path argument of main names
    files,                       \* the rows read_csv returns for the folder
    pc,                          \* where main stands
    error,                       \* the exception that ended main, "" if none
    trace,                       \* the calls main has made in this run
    before,                      \* the tables when this run of main started
    rerun,                       \* this run reads the input of the run before it
    runs,                        \* runs of main started so far
    restart,                     \* <<the tables before the run that stopped>> in a re-run
    race,                        \* the two runs of main that share the warehouse
    download_dir,                \* the entries of the download directory
    validated,                   \* what validate_downloaded_data returned or raised
    dirs,                        \* the files of each scratch directory
    checked                      \* what check_data_encoding returned or raised

tables ==
    <<Marsruts_lookup, TranspVeids_lookup, Parks_lookup, Transports_lookup,
      Transports_Marsruts_lookup, validacijas>>

vars ==
    <<schema, Marsruts_lookup, TranspVeids_lookup, Parks_lookup,
      Transports_lookup, Transports_Marsruts_lookup, validacijas,
      validation_files, files, pc, error, trace, before, rerun, runs,
      restart, race, download_dir, validated, dirs, checked>>

\* the state of the stages before the load
staging == <<download_dir, validated, dirs, checked>>

\* the warehouse and the run of main
Warehouse ==
    /\ schema = FALSE
    /\ Marsruts_lookup = {}
    /\ TranspVeids_lookup = {}
    /\ Parks_lookup = {}
    /\ Transports_lookup = {}
    /\ Transports_Marsruts_lookup = {}
    /\ validacijas = EmptyBag
    /\ validation_files = "missing"
    /\ files = {}
    /\ pc = "idle"
    /\ error = ""
    /\ trace = <<>>
    /\ before = tables
    /\ rerun = FALSE
    /\ runs = 0
    /\ restart = <<>>
    /\ race = <<>>

\* a task of a stage has not run, has raised an error with a message that
\* names the count found, or has returned a path
NotRun == [state |-> "none", message |-> "", found |-> 0, path |-> ""]
Raised(message, found) ==
    [state |-> "raised", message |-> message, found |-> found, path |-> ""]
Returned(path) == [state |-> "returned", message |-> "", found |-> 0, path |-> path]

\* no stage before the load has run
NoStaging ==
    /\ download_dir = {}
    /\ validated = NotRun
    /\ dirs = [extracted |-> {}]
    /\ checked = NotRun

Init == Warehouse /\ NoStaging

\* ------------------------------------------------------------ queries
\* The statements of the load steps, as functions of the rows fs that
\* read_csv returns and of the six tables t (in the order of tables).

\* the rows the SELECT of addMarsruts returns
SelectMarsrutsIn(fs, t) ==
    {[TMarsruts |-> r.TMarsruts, MarsrNos |-> r.MarsrNos] :
        r \in {r \in fs :
                 /\ r.TMarsruts # NULL
                 /\ r.MarsrNos # NULL
                 /\ Len(Trim(r.TMarsruts)) > 0
                 /\ Len(Trim(r.MarsrNos)) > 0
                 /\ r.TMarsruts \notin {m.TMarsruts : m \in t[1]}}}

\* the names the WHERE clause of addTranspVeids keeps
NewTranspVeidsIn(fs, t) ==
    {n \in {r.TranspVeids : r \in fs} :
        /\ n # NULL
        /\ Len(Trim(n)) > 0
        /\ n \notin {v.TranspVeids : v \in t[2]}}

\* the rows the SELECT of addTranspVeids returns
SelectTranspVeidsIn(fs, t) ==
    {[id |-> RowNumber(n, NewTranspVeidsIn(fs, t)), TranspVeids |-> n] :
        n \in NewTranspVeidsIn(fs, t)}

\* the names the WHERE clause of addParks keeps
NewParksIn(fs, t) ==
    {n \in {r.Parks : r \in fs} :
        /\ n # NULL
        /\ Len(Trim(n)) > 0
        /\ n \notin {p.Parks : p \in t[3]}}

\* the rows the SELECT of addParks returns, id cast to the column's type
SelectParksIn(fs, t) ==
    {[id |-> CastUSmallInt(Substring11(n)), Parks |-> n] : n \in NewParksIn(fs, t)}

\* the rows the SELECT of addTransports returns
SelectTransportsIn(fs, t) ==
    UNION {UNION {{[GarNr |-> r.GarNr, TranspVeids_id |-> mtl.id, Parks_id |-> mpl.id] :
                      mpl \in {p \in t[3] : r.Parks # NULL /\ r.Parks = p.Parks}} :
                  mtl \in {v \in t[2] :
                             r.TranspVeids # NULL /\ r.TranspVeids = v.TranspVeids}} :
           r \in {r \in fs :
                    /\ r.GarNr # NULL
                    /\ r.GarNr \notin {v.GarNr : v \in t[4]}}}

\* the SELECT of addTransportsMarsruts without its NOT EXISTS clause
SelectTransportsMarsrutsAllPairs(fs, t) ==
    {[GarNr |-> r.GarNr, TMarsruts |-> r.TMarsruts] :
        r \in {r \in fs :
                 /\ r.GarNr # NULL
                 /\ r.TMarsruts # NULL
                 /\ \E tl \in t[4] : r.GarNr = tl.GarNr
                 /\ \E ml \in t[1] : r.TMarsruts = ml.TMarsruts}}

\* the rows the SELECT of addTransportsMarsruts returns
SelectTransportsMarsrutsIn(fs, t) ==
    {[GarNr |-> r.GarNr, TMarsruts |-> r.TMarsruts] :
        r \in {r \in fs :
                 /\ r.GarNr # NULL
                 /\ r.TMarsruts # NULL
                 /\ \E tl \in t[4] : r.GarNr = tl.GarNr
                 /\ \E ml \in t[1] : r.TMarsruts = ml.TMarsruts
                 /\ ~\E tml \in t[5] :
                       tml.GarNr = r.GarNr /\ tml.TMarsruts = r.TMarsruts}}

\* the four columns addValidacijas selects from a row
ValidacijasRow(r) ==
    [GarNr |-> r.GarNr, Virziens |-> r.Virziens,
     ValidTalonaId |-> r.ValidTalonaId, Laiks |-> r.Laiks]

\* the rows of the input the WHERE clause of addValidacijas keeps
ValidacijasInputIn(fs) ==
    {r \in fs :
        /\ r.GarNr # NULL
        /\ r.Virziens # NULL
        /\ r.ValidTalonaId # NULL
        /\ r.Laiks # NULL}

\* the rows the SELECT of addValidacijas returns: no DISTINCT, so a bag
SelectValidacijasIn(fs) ==
    [k \in {ValidacijasRow(r) : r \in ValidacijasInputIn(fs)} |->
        Cardinality({r \in ValidacijasInputIn(fs) : ValidacijasRow(r) = k})]

\* a plain INSERT into a table without its key: every selected row is stored
InsertAll(stored, sel) == stored (+) sel

\* INSERT OR IGNORE of the bag sel into the bag stored: a row whose key is
\* stored, or was inserted earlier by the same statement, is skipped
InsertOrIgnore(stored, sel) ==
    stored (+) SetToBag({k \in BagToSet(sel) : ~BagIn(k, stored)})

\* the same queries on the input and the tables of the current state
SelectMarsruts == SelectMarsrutsIn(files, tables)
NewTranspVeids == NewTranspVeidsIn(files, tables)
SelectTranspVeids == SelectTranspVeidsIn(files, tables)
NewParks == NewParksIn(files, tables)
SelectParks == SelectParksIn(files, tables)
SelectTransports == SelectTransportsIn(files, tables)
SelectTransportsMarsruts == SelectTransportsMarsrutsIn(files, tables)
ValidacijasInput == ValidacijasInputIn(files)
SelectValidacijas == SelectValidacijasIn(files)

\* -------------------------------------------------- errors of the steps
\* read_csv raises on a folder whose files do not hold the nine columns
ReadCsvError(path) == IF path = "malformed" THEN "InvalidInputException" ELSE ""

\* the exception each statement raises, "" if none, on the path, its rows fs,
\* the schema sch and the tables t
ErrorMarsrutsIn(path, fs, sch, t) ==
    IF ~sch THEN "CatalogException"
    ELSE IF ReadCsvError(path) # "" THEN ReadCsvError(path)
    ELSE IF KeyViolated(t[1], SelectMarsrutsIn(fs, t), {"TMarsruts"})
    THEN "ConstraintException"
    ELSE ""

ErrorTranspVeidsIn(path, fs, sch, t) ==
    IF ~sch THEN "CatalogException"
    ELSE IF ReadCsvError(path) # "" THEN ReadCsvError(path)
    ELSE IF \/ KeyViolated(t[2], SelectTranspVeidsIn(fs, t), {"id"})
            \/ KeyViolated(t[2], SelectTranspVeidsIn(fs, t), {"TranspVeids"})
    THEN "ConstraintException"
    ELSE ""

ErrorParksIn(path, fs, sch, t) ==
    IF ~sch THEN "CatalogException"
    ELSE IF ReadCsvError(path) # "" THEN ReadCsvError(path)
    ELSE IF \E p \in SelectParksIn(fs, t) : p.id = -1 THEN "ConversionException"
    ELSE IF \/ KeyViolated(t[3], SelectParksIn(fs, t), {"id"})
            \/ KeyViolated(t[3], SelectParksIn(fs, t), {"Parks"})
    THEN "ConstraintException"
    ELSE ""

ErrorTransportsIn(path, fs, sch, t) ==
    IF ~sch THEN "CatalogException"
    ELSE IF ReadCsvError(path) # "" THEN ReadCsvError(path)
    ELSE IF \/ KeyViolated(t[4], SelectTransportsIn(fs, t), {"GarNr"})
            \/ ForeignKeyViolated(SelectTransportsIn(fs, t), "TranspVeids_id",
                                  {v.id : v \in t[2]})
            \/ ForeignKeyViolated(SelectTransportsIn(fs, t), "Parks_id",
                                  {p.id : p \in t[3]})
    THEN "ConstraintException"
    ELSE ""

ErrorTransportsMarsrutsIn(path, fs, sch, t) ==
    IF ~sch THEN "CatalogException"
    ELSE IF ReadCsvError(path) # "" THEN ReadCsvError(path)
    ELSE IF \/ KeyViolated(t[5], SelectTransportsMarsrutsIn(fs, t),
                           {"GarNr", "TMarsruts"})
            \/ ForeignKeyViolated(SelectTransportsMarsrutsIn(fs, t), "GarNr",
                                  {v.GarNr : v \in t[4]})
            \/ ForeignKeyViolated(SelectTransportsMarsrutsIn(fs, t), "TMarsruts",
                                  {m.TMarsruts : m \in t[1]})
    THEN "ConstraintException"
    ELSE ""

\* the fact table declared without its FOREIGN KEY
ErrorValidacijasNoForeignKey(path, fs, sch, t) ==
    IF ~sch THEN "CatalogException" ELSE ReadCsvError(path)

\* a duplicate key is ignored by INSERT OR IGNORE; a missing vehicle is not
ErrorValidacijasIn(path, fs, sch, t) ==
    IF ~sch THEN "CatalogException"
    ELSE IF ReadCsvError(path) # "" THEN ReadCsvError(path)
    ELSE IF ForeignKeyViolated(BagToSet(SelectValidacijasIn(fs)), "GarNr",
                               {v.GarNr : v \in t[4]})
    THEN "ConstraintException"
    ELSE ""

\* the same on the current state
ErrorMarsruts == ErrorMarsrutsIn(validation_files, files, schema, tables)
ErrorTranspVeids == ErrorTranspVeidsIn(validation_files, files, schema, tables)
ErrorParks == ErrorParksIn(validation_files, files, schema, tables)
ErrorTransports == ErrorTransportsIn(validation_files, files, schema, tables)
ErrorTransportsMarsruts ==
    ErrorTransportsMarsrutsIn(validation_files, files, schema, tables)
ErrorValidacijas == ErrorValidacijasIn(validation_files, files, schema, tables)

\* the six load steps of main, in the order main calls them
LoadSteps ==
    <<"addMarsruts", "addTranspVeids", "addParks",
      "addTransports", "addTransportsMarsruts", "addValidacijas">>

\* the exception the load step raises
StepError(step, path, fs, sch, t) ==
    CASE step = "addMarsruts" -> ErrorMarsrutsIn(path, fs, sch, t)
      [] step = "addTranspVeids" -> ErrorTranspVeidsIn(path, fs, sch, t)
      [] step = "addParks" -> ErrorParksIn(path, fs, sch, t)
      [] step = "addTransports" -> ErrorTransportsIn(path, fs, sch, t)
      [] step = "addTransportsMarsruts" -> ErrorTransportsMarsrutsIn(path, fs, sch, t)
      [] step = "addValidacijas" -> ErrorValidacijasIn(path, fs, sch, t)

\* the tables after the load step: a statement that raises changes none
StepTables(step, path, fs, sch, t) ==
    IF StepError(step, path, fs, sch, t) # "" THEN t
    ELSE CASE step = "addMarsruts" ->
                  [t EXCEPT ![1] = @ \cup SelectMarsrutsIn(fs, t)]
           [] step = "addTranspVeids" ->
                  [t EXCEPT ![2] = @ \cup SelectTranspVeidsIn(fs, t)]
           [] step = "addParks" ->
                  [t EXCEPT ![3] = @ \cup SelectParksIn(fs, t)]
           [] step = "addTransports" ->
                  [t EXCEPT ![4] = @ \cup SelectTransportsIn(fs, t)]
           [] step = "addTransportsMarsruts" ->
                  [t EXCEPT ![5] = @ \cup SelectTransportsMarsrutsIn(fs, t)]
           [] step = "addValidacijas" ->
                  [t EXCEPT ![6] = InsertOrIgnore(@, SelectValidacijasIn(fs))]

\* main from its i-th load step to its end on a folder: the exception that
\* ends it, "" if none, and the tables it leaves
RECURSIVE LoadFrom(_, _, _, _)
LoadFrom(i, path, fs, t) ==
    IF i > Len(LoadSteps) THEN [error |-> "", tables |-> t]
    ELSE IF StepError(LoadSteps[i], path, fs, TRUE, t) # ""
    THEN [error |-> StepError(LoadSteps[i], path, fs, TRUE, t), tables |-> t]
    ELSE LoadFrom(i + 1, path, fs, StepTables(LoadSteps[i], path, fs, TRUE, t))

\* ----------------------------------------------------------- the steps
\* main with the vehicle step called before the depot step
StepAfterVehiclesFirst(step) ==
    CASE step = "mdConnection" -> "addMarsruts"
      [] step = "addMarsruts" -> "addTranspVeids"
      [] step = "addTranspVeids" -> "addTransports"
      [] step = "addTransports" -> "addParks"
      [] step = "addParks" -> "addTransportsMarsruts"
      [] step = "addTransportsMarsruts" -> "addValidacijas"
      [] step = "addValidacijas" -> "done"

\* the call main makes after step returns
StepAfter(step) ==
    CASE step = "mdConnection" -> "addMarsruts"
      [] step = "addMarsruts" -> "addTranspVeids"
      [] step = "addTranspVeids" -> "addParks"
      [] step = "addParks" -> "addTransports"
      [] step = "addTransports" -> "addTransportsMarsruts"
      [] step = "addTransportsMarsruts" -> "addValidacijas"
      [] step = "addValidacijas" -> "done"

\* a call of main returns, or raises e and ends main: a statement that
\* raises changes no table
Outcome(step, e) ==
    /\ trace' = Append(trace, step)
    /\ error' = e
    /\ pc' = IF e = "" THEN StepAfter(step) ELSE "failed"

\* main is started on a path: another path than a folder ends it at once;
\* origin is <<>>, or holds the tables before the stopped run it starts again
Run(path, fs, origin) ==
    /\ pc \in {"idle", "done", "exit", "failed", "interrupted"}
    /\ runs < MaxRuns
    /\ runs' = runs + 1
    /\ validation_files' = path
    /\ files' = fs
    /\ before' = tables
    /\ rerun' = (runs > 0 /\ path = "folder" /\ validation_files = path /\ files = fs)
    /\ trace' = <<>>
    /\ error' = ""
    /\ restart' = origin
    /\ pc' = IF path \in {"folder", "malformed"} THEN "mdConnection" ELSE "exit"
    /\ UNCHANGED <<schema, tables, race, staging>>

\* main is started by the operator
Main(path, fs) == Run(path, fs, <<>>)

\* CREATE SCHEMA / CREATE TABLE IF NOT EXISTS: the stored rows stay
mdConnection ==
    /\ pc = "mdConnection"
    /\ schema' = TRUE
    /\ Outcome("mdConnection", "")
    /\ UNCHANGED <<tables, validation_files, files, before, rerun, runs,
                   restart, race, staging>>

\* addMarsruts written as INSERT OR REPLACE: a stored route takes the
\* display name of the input
addMarsrutsReplace ==
    /\ pc = "addMarsruts"
    /\ Outcome("addMarsruts", IF ~schema THEN "CatalogException" ELSE "")
    /\ Marsruts_lookup' =
           IF ~schema THEN Marsruts_lookup
           ELSE LET sel == {[TMarsruts |-> r.TMarsruts, MarsrNos |-> r.MarsrNos] :
                              r \in {r \in files : NotBlank(r.TMarsruts) /\ NotBlank(r.MarsrNos)}}
                    new == {m \in sel : \A n \in sel : n.TMarsruts = m.TMarsruts =>
                                               ~StrLess(n.MarsrNos, m.MarsrNos)}
                IN {m \in Marsruts_lookup : m.TMarsruts \notin {n.TMarsruts : n \in new}}
                     \cup new
    /\ UNCHANGED <<schema, TranspVeids_lookup, Parks_lookup, Transports_lookup,
                   Transports_Marsruts_lookup, validacijas,
                   validation_files, files, before, rerun, runs,
                   restart, race, staging>>

addMarsruts ==
    /\ pc = "addMarsruts"
    /\ Outcome("addMarsruts", ErrorMarsruts)
    /\ Marsruts_lookup' =
           IF ErrorMarsruts = "" THEN Marsruts_lookup \cup SelectMarsruts
           ELSE Marsruts_lookup
    /\ UNCHANGED <<schema, TranspVeids_lookup, Parks_lookup, Transports_lookup,
                   Transports_Marsruts_lookup, validacijas,
                   validation_files, files, before, rerun, runs,
                   restart, race, staging>>

addTranspVeids ==
    /\ pc = "addTranspVeids"
    /\ Outcome("addTranspVeids", ErrorTranspVeids)
    /\ TranspVeids_lookup' =
           IF ErrorTranspVeids = "" THEN TranspVeids_lookup \cup SelectTranspVeids
           ELSE TranspVeids_lookup
    /\ UNCHANGED <<schema, Marsruts_lookup, Parks_lookup, Transports_lookup,
                   Transports_Marsruts_lookup, validacijas,
                   validation_files, files, before, rerun, runs,
                   restart, race, staging>>

addParks ==
    /\ pc = "addParks"
    /\ Outcome("addParks", ErrorParks)
    /\ Parks_lookup' =
           IF ErrorParks = "" THEN Parks_lookup \cup SelectParks
           ELSE Parks_lookup
    /\ UNCHANGED <<schema, Marsruts_lookup, TranspVeids_lookup, Transports_lookup,
                   Transports_Marsruts_lookup, validacijas,
                   validation_files, files, before, rerun, runs,
                   restart, race, staging>>

addTransports ==
    /\ pc = "addTransports"
    /\ Outcome("addTransports", ErrorTransports)
    /\ Transports_lookup' =
           IF ErrorTransports = "" THEN Transports_lookup \cup SelectTransports
           ELSE Transports_lookup
    /\ UNCHANGED <<schema, Marsruts_lookup, TranspVeids_lookup, Parks_lookup,
                   Transports_Marsruts_lookup, validacijas,
                   validation_files, files, before, rerun, runs,
                   restart, race, staging>>

addTransportsMarsruts ==
    /\ pc = "addTransportsMarsruts"
    /\ Outcome("addTransportsMarsruts", ErrorTransportsMarsruts)
    /\ Transports_Marsruts_lookup' =
           IF ErrorTransportsMarsruts = ""
           THEN Transports_Marsruts_lookup \cup SelectTransportsMarsruts
           ELSE Transports_Marsruts_lookup
    /\ UNCHANGED <<schema, Marsruts_lookup, TranspVeids_lookup, Parks_lookup,
                   Transports_lookup, validacijas,
                   validation_files, files, before, rerun, runs,
                   restart, race, staging>>

addValidacijas ==
    /\ pc = "addValidacijas"
    /\ Outcome("addValidacijas", ErrorValidacijas)
    /\ validacijas' =
           IF ErrorValidacijas = "" THEN InsertOrIgnore(validacijas, SelectValidacijas)
           ELSE validacijas
    /\ UNCHANGED <<schema, Marsruts_lookup, TranspVeids_lookup, Parks_lookup,
                   Transports_lookup, Transports_Marsruts_lookup,
                   validation_files, files, before, rerun, runs,
                   restart, race, staging>>

\* main is run on a folder of files, on a folder whose files read_csv cannot
\* parse, on a file, or on a path that does not exist
Start ==
    \/ \E fs \in FileSets : Main("folder", fs)
    \/ \E path \in {"malformed", "file", "missing"} : Main(path, {})

Next ==
    \/ Start
    \/ mdConnection
    \/ addMarsruts
    \/ addTranspVeids
    \/ addParks
    \/ addTransports
    \/ addTransportsMarsruts
    \/ addValidacijas

Spec == Init /\ [][Next]_vars

\* ------------------------------------------------- stopped runs, re-runs
\* the process of main is ended between two of its calls
Interrupt ==
    /\ pc \in {"mdConnection"} \cup {LoadSteps[i] : i \in 1..Len(LoadSteps)}
    /\ pc' = "interrupted"
    /\ UNCHANGED <<schema, tables, validation_files, files, error, trace,
                   before, rerun, runs, restart, race, staging>>

\* main is started again on the input of a run that was interrupted or that
\* raised
Restart ==
    /\ pc \in {"interrupted", "failed"}
    /\ Run(validation_files, files, IF restart = <<>> THEN <<before>> ELSE restart)

NextRestart == Next \/ Interrupt \/ Restart

SpecRestart == Init /\ [][NextRestart]_vars

\* ------------------------------------------ two runs on one warehouse
\* the inputs of the run that loaded the warehouse before the two runs
RaceSeeds == {{}, {Sample3}, sample_csv}

\* a warehouse without schema, or as a completed run over a seed left it, and
\* two runs of main on folders, each before its first call
InitRace ==
    /\ \E seed \in RaceSeeds, sch \in BOOLEAN :
          /\ sch \/ seed = {}
          /\ schema = sch
          /\ LET u == LoadFrom(1, "folder", seed, <<{}, {}, {}, {}, {}, EmptyBag>>)
             IN /\ u.error = ""
                /\ Marsruts_lookup = u.tables[1]
                /\ TranspVeids_lookup = u.tables[2]
                /\ Parks_lookup = u.tables[3]
                /\ Transports_lookup = u.tables[4]
                /\ Transports_Marsruts_lookup = u.tables[5]
                /\ validacijas = u.tables[6]
    /\ validation_files = "folder"
    /\ files = {}
    /\ pc = "idle"
    /\ error = ""
    /\ trace = <<>>
    /\ before = tables
    /\ rerun = FALSE
    /\ runs = 0
    /\ restart = <<>>
    /\ \E fs1, fs2 \in FileSets :
          race = <<[pc |-> "mdConnection", files |-> fs1, error |-> ""],
                   [pc |-> "mdConnection", files |-> fs2, error |-> ""]>>
    /\ NoStaging

\* run i makes its next call, as one atomic step on the shared tables
RaceStep(i) ==
    /\ race[i].pc \notin {"done", "failed"}
    /\ IF race[i].pc = "mdConnection"
       THEN /\ schema' = TRUE
            /\ race' = [race EXCEPT ![i].pc = StepAfter("mdConnection")]
            /\ UNCHANGED tables
       ELSE LET e == StepError(race[i].pc, "folder", race[i].files, schema, tables)
                t == StepTables(race[i].pc, "folder", race[i].files, schema, tables)
            IN /\ race' = [race EXCEPT ![i].pc = IF e = "" THEN StepAfter(race[i].pc)
                                                  ELSE "failed",
                                       ![i].error = e]
               /\ Marsruts_lookup' = t[1]
               /\ TranspVeids_lookup' = t[2]
               /\ Parks_lookup' = t[3]
               /\ Transports_lookup' = t[4]
               /\ Transports_Marsruts_lookup' = t[5]
               /\ validacijas' = t[6]
               /\ UNCHANGED schema
    /\ UNCHANGED <<validation_files, files, pc, error, trace, before, rerun,
                   runs, restart, staging>>

NextRace == RaceStep(1) \/ RaceStep(2)

SpecRace == InitRace /\ [][NextRace]_vars

\* ------------------------------------------------- archive validation
\* the entries a download directory can hold: a name, and whether the bytes
\* are a zip archive
DownloadEntries ==
    {[name |-> "data.zip", zip |-> TRUE],
     [name |-> "data_2.zip", zip |-> TRUE],
     [name |-> "export", zip |-> TRUE],
     [name |-> "extra_file.txt", zip |-> FALSE],
     [name |-> "non_zip_file.txt", zip |-> FALSE],
     [name |-> "page.html", zip |-> FALSE],
     [name |-> "broken.zip", zip |-> FALSE]}

\* validate_downloaded_data without the count of the entries: it takes one
\* entry of the directory
validate_any_entry(download) ==
    IF download = {}
    THEN Raised("No files found in the download directory", 0)
    ELSE LET f == CHOOSE e \in download : TRUE
         IN IF ~f.zip
            THEN Raised("Downloaded file is not a zip file", 1)
            ELSE Returned(f.name)

\* what validate_downloaded_data raises or returns on the entries of the
\* download directory
validate_downloaded_data(download) ==
    IF download = {}
    THEN Raised("No files found in the download directory", 0)
    ELSE IF Cardinality(download) > 1
    THEN Raised("Expected 1 file, found", Cardinality(download))
    ELSE LET f == CHOOSE e \in download : TRUE
         IN IF ~f.zip
            THEN Raised("Downloaded file is not a zip file", 1)
            ELSE Returned(f.name)

\* a download directory with some entries, not validated yet
InitArchive ==
    /\ Warehouse
    /\ download_dir \in {d \in SUBSET DownloadEntries : Cardinality(d) <= MaxEntries}
    /\ validated = NotRun
    /\ dirs = [extracted |-> {}]
    /\ checked = NotRun

\* the task lists the directory and raises or returns: it writes no file
ValidateDownloadedData ==
    /\ validated = NotRun
    /\ validated' = validate_downloaded_data(download_dir)
    /\ UNCHANGED <<schema, tables, validation_files, files, pc, error, trace,
                   before, rerun, runs, restart, race, download_dir, dirs, checked>>

NextArchive == ValidateDownloadedData

SpecArchive == InitArchive /\ [][NextArchive]_vars

\* ------------------------------------------------- encoding detection
\* the bytes of the texts: "M", and the bytes 190, 197 and 254, which are
\* three characters in windows-1257 and of which 197 190 is one in UTF-8
ByteSet == {77, 190, 197, 254}

\* the result of decoding bytes that are no text in the encoding
Invalid == <<-1>>

\* the code points of UTF-8 bytes of one- and two-byte sequences (a lead byte
\* of a longer sequence needs continuation bytes that a text of MaxBytes
\* bytes of ByteSet does not hold)
RECURSIVE Utf8Decode(_)
Utf8Decode(bytes) ==
    IF bytes = <<>> THEN <<>>
    ELSE IF bytes[1] < 128
    THEN LET rest == Utf8Decode(Tail(bytes))
         IN IF rest = Invalid THEN Invalid ELSE <<bytes[1]>> \o rest
    ELSE IF bytes[1] \in 194..223 /\ Len(bytes) >= 2 /\ bytes[2] \in 128..191
    THEN LET rest == Utf8Decode(SubSeq(bytes, 3, Len(bytes)))
         IN IF rest = Invalid THEN Invalid
            ELSE <<(bytes[1] - 192) * 64 + (bytes[2] - 128)>> \o rest
    ELSE Invalid

\* the UTF-8 bytes of code points below 2048
RECURSIVE Utf8Encode(_)
Utf8Encode(text) ==
    IF text = <<>> THEN <<>>
    ELSE IF text[1] < 128 THEN <<text[1]>> \o Utf8Encode(Tail(text))
    ELSE <<192 + (text[1] \div 64), 128 + (text[1] % 64)>> \o Utf8Encode(Tail(text))

\* the code point of a byte in windows-1257: 190 is the fraction three
\* quarters, 197 A with ring, 226 a-macron, 236 g-cedilla, 254 z-caron
Cp1257(byte) ==
    CASE byte < 128 -> byte
      [] byte = 190 -> 190
      [] byte = 197 -> 197
      [] byte = 226 -> 257
      [] byte = 236 -> 291
      [] byte = 254 -> 382

\* the code points of windows-1257 bytes
Cp1257Decode(bytes) == [i \in 1..Len(bytes) |-> Cp1257(bytes[i])]

\* the texts of at most n bytes
RECURSIVE Texts(_)
Texts(n) ==
    IF n = 0 THEN {<<>>}
    ELSE Texts(n - 1) \cup {Append(s, b) : s \in {s \in Texts(n - 1) : Len(s) = n - 1},
                                           b \in ByteSet}

\* the extracted files: a name, the bytes of its text, and whether its rows
\* hold the columns of the schema
ExtractedFiles ==
    [name : {"data.csv", "data_2.csv"}, bytes : Texts(MaxBytes), columns : BOOLEAN]

\* the file parses under the schema as UTF-8
Parses(f) == Utf8Decode(f.bytes) # Invalid /\ f.columns

\* convert_data that leaves a file that parses as it is
convert_unparsed_only(extracted) ==
    {IF Parses(f) THEN f
     ELSE [name |-> f.name, bytes |-> Utf8Encode(Cp1257Decode(f.bytes)),
           columns |-> f.columns] : f \in extracted}

\* convert_data: every file read as windows-1257 and written as UTF-8 under
\* its name
convert_data(extracted) ==
    {[name |-> f.name, bytes |-> Utf8Encode(Cp1257Decode(f.bytes)),
      columns |-> f.columns] : f \in extracted}

\* check_data_encoding on the directories ds: the directories it leaves and
\* what it returns or raises
check_data_encoding(ds) ==
    IF \A f \in ds.extracted : Parses(f)
    THEN [dirs |-> ds, result |-> Returned("extracted")]
    ELSE LET converted == convert_data(ds.extracted)
             ds2 == [extracted |-> ds.extracted, converted |-> converted]
         IN IF \A g \in converted : Parses(g)
            THEN [dirs |-> ds2, result |-> Returned("converted")]
            ELSE [dirs |-> ds2, result |-> Raised("DataFormatError", 0)]

\* an extracted directory with one or two files, not checked yet
InitEncoding ==
    /\ Warehouse
    /\ download_dir = {}
    /\ validated = NotRun
    /\ \E f, g \in ExtractedFiles :
          /\ f.name = g.name => f = g
          /\ dirs = [extracted |-> {f, g}]
    /\ checked = NotRun

CheckDataEncoding ==
    /\ checked = NotRun
    /\ dirs' = check_data_encoding(dirs).dirs
    /\ checked' = check_data_encoding(dirs).result
    /\ UNCHANGED <<schema, tables, validation_files, files, pc, error, trace,
                   before, rerun, runs, restart, race, download_dir, validated>>

NextEncoding == CheckDataEncoding

SpecEncoding == InitEncoding /\ [][NextEncoding]_vars

\* ============================================================== claims
\* the keys stored in the dimension tables
RouteCodes == {m.TMarsruts : m \in Marsruts_lookup}
VehicleTypeIds == {t.id : t \in TranspVeids_lookup}
DepotIds == {p.id : p \in Parks_lookup}
VehicleNumbers == {v.GarNr : v \in Transports_lookup}

\* the calls of main, in the order of its source
LoadOrder ==
    <<"mdConnection", "addMarsruts", "addTranspVeids", "addParks",
      "addTransports", "addTransportsMarsruts", "addValidacijas">>

\* main has made the call step in this run
Called(step) == \E i \in 1..Len(trace) : trace[i] = step

\* the four key fields of an input row are all present
HasKey(r) ==
    r.GarNr # NULL /\ r.Virziens # NULL /\ r.ValidTalonaId # NULL /\ r.Laiks # NULL

\* C1: a run of main over the input of the run before it, whatever state the
\* warehouse was in before the two runs, leaves all six tables with the rows
\* they had when the first of the two runs ended.
C1_SecondRunChangesNothing == rerun => tables = before

\* the third run, which repeats the second over an input with taps, has
\* completed
C1_Witness ==
    /\ rerun
    /\ runs = 3
    /\ pc = "done"
    /\ BagCardinality(validacijas) > 1
    /\ \E r \in files : HasKey(r)

\* the validation event an input row stands for
EventOf(r) ==
    [GarNr |-> r.GarNr, Virziens |-> r.Virziens,
     ValidTalonaId |-> r.ValidTalonaId, Laiks |-> r.Laiks]

\* C2: when every vehicle of the input is stored, the fact step returns
\* without error and the fact table then holds its former rows and one row for
\* every input row with four key fields present, each key once: rows whose key
\* is stored already or repeated in the input are skipped.
C2_FactLoaderSkipsExistingKeys ==
    [][(/\ pc = "addValidacijas"
        /\ \A r \in files : r.GarNr # NULL => r.GarNr \in VehicleNumbers)
       => /\ error' = ""
          /\ pc' = "done"
          /\ BagToSet(validacijas') =
                BagToSet(validacijas) \cup {EventOf(r) : r \in {x \in files : HasKey(x)}}
          /\ \A k \in BagToSet(validacijas') : CopiesIn(k, validacijas') = 1]_vars

\* the fact step has returned on an input that holds one key twice, all of
\* whose keys were stored by the run before
C2_Witness ==
    /\ pc = "done"
    /\ rerun
    /\ \E r1, r2 \in files : r1 # r2 /\ HasKey(r1) /\ EventOf(r1) = EventOf(r2)
    /\ \A r \in files : HasKey(r) /\ BagIn(EventOf(r), before[6])

\* C3: in every state, every vehicle's type id and depot id are ids of stored
\* rows, every vehicle-route pair names a stored vehicle and a stored route,
\* and every validation event names a stored vehicle.
C3_ReferentialIntegrity ==
    /\ \A v \in Transports_lookup :
          v.TranspVeids_id \in VehicleTypeIds /\ v.Parks_id \in DepotIds
    /\ \A x \in Transports_Marsruts_lookup :
          x.GarNr \in VehicleNumbers /\ x.TMarsruts \in RouteCodes
    /\ \A k \in BagToSet(validacijas) : k.GarNr \in VehicleNumbers

\* a run has ended with an error at the fact step because a vehicle is
\* missing, while vehicles, pairs and events of earlier runs are stored
C3_Witness ==
    /\ pc = "failed"
    /\ trace[Len(trace)] = "addValidacijas"
    /\ \E r \in files : HasKey(r) /\ r.GarNr \notin VehicleNumbers
    /\ Transports_lookup # {}
    /\ Transports_Marsruts_lookup # {}
    /\ validacijas # EmptyBag

\* C4: the calls main has made in a run are an initial part of: schema, route,
\* vehicle type, depot, vehicle, vehicle-route, fact; main stands at the call
\* after them, and the tables exist whenever a load step is due.
C4_StepOrder ==
    /\ Len(trace) <= Len(LoadOrder)
    /\ trace = SubSeq(LoadOrder, 1, Len(trace))
    /\ pc \in {"addMarsruts", "addTranspVeids", "addParks", "addTransports",
               "addTransportsMarsruts", "addValidacijas"}
          => schema /\ pc = LoadOrder[Len(trace) + 1]
    /\ pc = "done" => trace = LoadOrder
    /\ pc = "addTransports" => Called("addTranspVeids") /\ Called("addParks")
    /\ pc = "addTransportsMarsruts" => Called("addTransports") /\ Called("addMarsruts")
    /\ pc = "addValidacijas" => Called("addTransports")

\* a run that made all seven calls and stored vehicles
C4_Witness == pc = "done" /\ trace = LoadOrder /\ Transports_lookup # {}

\* C9: no step removes a row or changes a stored row: every table keeps its
\* rows, a stored route keeps its display name and a stored vehicle keeps its
\* type and depot.
C9_AppendOnly ==
    [][/\ Marsruts_lookup \subseteq Marsruts_lookup'
       /\ TranspVeids_lookup \subseteq TranspVeids_lookup'
       /\ Parks_lookup \subseteq Parks_lookup'
       /\ Transports_lookup \subseteq Transports_lookup'
       /\ Transports_Marsruts_lookup \subseteq Transports_Marsruts_lookup'
       /\ validacijas \sqsubseteq validacijas'
       /\ \A m \in Marsruts_lookup : \A n \in Marsruts_lookup' :
             n.TMarsruts = m.TMarsruts => n.MarsrNos = m.MarsrNos
       /\ \A v \in Transports_lookup : \A w \in Transports_lookup' :
             w.GarNr = v.GarNr => w = v]_vars

\* the route step has returned on an input that gives a stored route code
\* another display name
C9_Witness ==
    /\ Called("addMarsruts")
    /\ pc # "failed"
    /\ \E r \in files : \E m \in before[1] :
          /\ r.TMarsruts = m.TMarsruts
          /\ NotBlank(r.MarsrNos)
          /\ r.MarsrNos # m.MarsrNos
          /\ m \in Marsruts_lookup

\* C10: a run over the sample file on an empty warehouse does not fail and
\* ends with 3 routes, 2 vehicle types, 2 depots, 3 vehicles and 5 validation
\* events; a second run over the sample file ends with the same counts.
C10_SampleCounts ==
    (/\ validation_files = "folder"
     /\ files = sample_csv
     /\ runs = 1 \/ (runs = 2 /\ rerun))
    => /\ pc # "failed"
       /\ pc = "done" =>
             /\ Cardinality(Marsruts_lookup) = 3
             /\ Cardinality(TranspVeids_lookup) = 2
             /\ Cardinality(Parks_lookup) = 2
             /\ Cardinality(Transports_lookup) = 3
             /\ BagCardinality(validacijas) = 5

\* the second run over the sample file has completed
C10_Witness == files = sample_csv /\ runs = 2 /\ rerun /\ pc = "done"

\* C5: the vehicle type step returns without error, keeps the stored rows,
\* gives each new name an id above every stored id, in ascending order of the
\* new names, and leaves the ids 1..n.
C5_TypeIdsAppended ==
    [][pc = "addTranspVeids"
       => /\ error' = ""
          /\ TranspVeids_lookup \subseteq TranspVeids_lookup'
          /\ \A n \in {r.TranspVeids : r \in files} :
                (NotBlank(n) /\ n \notin {t.TranspVeids : t \in TranspVeids_lookup})
                => \E t \in TranspVeids_lookup' :
                      /\ t.TranspVeids = n
                      /\ \A u \in TranspVeids_lookup : u.id < t.id
          /\ \A t, u \in TranspVeids_lookup' \ TranspVeids_lookup :
                StrLess(t.TranspVeids, u.TranspVeids) => t.id < u.id
          /\ {t.id : t \in TranspVeids_lookup'} = 1..Cardinality(TranspVeids_lookup')]_vars

\* C6: the depot step returns without error; afterwards every non-blank depot
\* name of the input has exactly one row and no two depot names share an id.
C6_EveryDepotStored ==
    [][pc = "addParks"
       => /\ error' = ""
          /\ \A n \in {r.Parks : r \in files} :
                NotBlank(n) => Cardinality({p \in Parks_lookup' : p.Parks = n}) = 1
          /\ \A p, q \in Parks_lookup' : p.Parks # q.Parks => p.id # q.id]_vars

\* the type name and the depot name of an input row both have a stored row
Resolves(r) ==
    /\ \E t \in TranspVeids_lookup : t.TranspVeids = r.TranspVeids
    /\ \E p \in Parks_lookup : p.Parks = r.Parks

\* C7: on an input with a vehicle row whose type or depot has no stored row,
\* the vehicle step returns without error, stores no row for a new vehicle
\* none of whose rows resolves, and stores every new vehicle that has a row
\* whose type and depot resolve.
C7_UnresolvedVehiclesSkipped ==
    [][(/\ pc = "addTransports"
        /\ \E r \in files : r.GarNr # NULL /\ ~Resolves(r))
       => /\ error' = ""
          /\ \A r \in files :
                (r.GarNr # NULL /\ r.GarNr \notin VehicleNumbers)
                => ((\E v \in Transports_lookup' : v.GarNr = r.GarNr)
                      <=> (\E x \in files : x.GarNr = r.GarNr /\ Resolves(x)))]_vars

\* C8: on an input with a tap whose vehicle is not stored, the fact step
\* raises no error, stores no vehicle, leaves that tap out and stores every
\* tap of the input whose vehicle is stored.
C8_MissingVehicleRowsRejected ==
    [][(/\ pc = "addValidacijas"
        /\ \E r \in files : HasKey(r) /\ r.GarNr \notin VehicleNumbers)
       => /\ error' = ""
          /\ Transports_lookup' = Transports_lookup
          /\ \A r \in files :
                HasKey(r) =>
                   (BagIn(EventOf(r), validacijas')
                      <=> (r.GarNr \in VehicleNumbers \/ BagIn(EventOf(r), validacijas)))]_vars

\* the route code of the row is blank or missing
BlankRoute(r) == ~NotBlank(r.TMarsruts)

\* the vehicle of the row is stored when the run starts, or the input names
\* it with a type and a depot
ValidVehicle(r) ==
    /\ r.GarNr # NULL
    /\ \/ \E v \in before[4] : v.GarNr = r.GarNr
       \/ \E x \in files :
             x.GarNr = r.GarNr /\ NotBlank(x.TranspVeids) /\ NotBlank(x.Parks)

\* C11: when a run over a folder has ended, every input row with a blank or
\* missing route code and a valid vehicle, direction, ticket and timestamp
\* has its tap stored, and no route and no vehicle-route pair carries its
\* route code.
C11_BlankRouteStillLoaded ==
    (validation_files = "folder" /\ pc \in {"done", "failed"})
    => \A r \in files :
          (BlankRoute(r) /\ HasKey(r) /\ ValidVehicle(r))
          => /\ BagIn(EventOf(r), validacijas)
             /\ \A m \in Marsruts_lookup : m.TMarsruts # r.TMarsruts
             /\ \A tm \in Transports_Marsruts_lookup : tm.TMarsruts # r.TMarsruts

\* C17: on every parsed input the route step returns without error and then
\* the route table holds exactly one row for every route code the input gives
\* with a non-blank code and a non-blank display name, every row stored
\* before and no second row for its code, and no row with a blank code or a
\* blank display name.
C17_OneRowPerRouteCode ==
    [][(pc = "addMarsruts" /\ validation_files = "folder")
       => /\ error' = ""
          /\ \A r \in files :
                (NotBlank(r.TMarsruts) /\ NotBlank(r.MarsrNos))
                => Cardinality({n \in Marsruts_lookup' : n.TMarsruts = r.TMarsruts}) = 1
          /\ \A n \in Marsruts_lookup :
                {x \in Marsruts_lookup' : x.TMarsruts = n.TMarsruts} = {n}
          /\ \A n \in Marsruts_lookup' :
                NotBlank(n.TMarsruts) /\ NotBlank(n.MarsrNos)]_vars

\* C18: on every parsed input the vehicle step returns without error and
\* then the vehicle table holds exactly one row for every vehicle number the
\* input gives with a type and a depot that are stored, and every row stored
\* before and no second row for its vehicle number.
C18_OneRowPerVehicle ==
    [][(pc = "addTransports" /\ validation_files = "folder")
       => /\ error' = ""
          /\ \A r \in files :
                (r.GarNr # NULL /\ Resolves(r))
                => Cardinality({v \in Transports_lookup' : v.GarNr = r.GarNr}) = 1
          /\ \A v \in Transports_lookup :
                {x \in Transports_lookup' : x.GarNr = v.GarNr} = {v}]_vars

\* the vehicle number and the route code of an input row
PairOf(r) == [GarNr |-> r.GarNr, TMarsruts |-> r.TMarsruts]

\* C19: on every parsed input the vehicle-route step returns without error
\* and then its table holds the rows it held before and exactly the pairs of
\* the input whose vehicle and whose route are stored at that moment: a
\* stored pair is skipped, and a pair with a missing vehicle or a missing
\* route is left out without an error.
C19_VehicleRoutePairs ==
    [][(pc = "addTransportsMarsruts" /\ validation_files = "folder")
       => /\ error' = ""
          /\ Transports_Marsruts_lookup' =
                Transports_Marsruts_lookup
                  \cup {PairOf(r) : r \in {x \in files : /\ x.GarNr \in VehicleNumbers
                                                         /\ x.TMarsruts \in RouteCodes}}]_vars

\* the step has returned on an input with a pair that was stored before the
\* run and a pair whose vehicle is not stored
C19_Witness ==
    /\ pc = "addValidacijas"
    /\ \E r \in files : PairOf(r) \in before[5]
    /\ \E r \in files :
          /\ r.GarNr # NULL /\ r.GarNr \notin VehicleNumbers
          /\ r.TMarsruts \in RouteCodes
          /\ PairOf(r) \notin Transports_Marsruts_lookup

\* the paths main or read_csv rejects
Rejected == {"file", "missing", "malformed"}

\* C12: a run of main on a path that is a file, that does not exist or whose
\* files cannot be parsed makes no step that creates the schema or changes a
\* table, and no load step of it returns.
C12_RejectedInputWritesNothing ==
    [][validation_files' \in Rejected
       => /\ schema' = schema
          /\ tables' = tables
          /\ pc' \in {"exit", "mdConnection", "addMarsruts", "failed"}]_vars

\* what one run of main that is not stopped leaves of the tables t
Uninterrupted(t) == LoadFrom(1, validation_files, files, t)

\* C13: a re-run over the input of a run that stopped after some of its load
\* steps, by an interruption or by an error of a step, completes, and leaves
\* the tables that one run that is not stopped leaves of the tables before
\* the stopped run.
C13_RestartCompletes ==
    (restart # <<>> /\ pc \in {"done", "failed"})
    => /\ pc = "done"
       /\ tables = Uninterrupted(restart[1]).tables

\* no table holds two rows with one key
KeysUnique ==
    /\ \A a, b \in Marsruts_lookup : a.TMarsruts = b.TMarsruts => a = b
    /\ \A a, b \in TranspVeids_lookup :
          (a.id = b.id \/ a.TranspVeids = b.TranspVeids) => a = b
    /\ \A a, b \in Parks_lookup : (a.id = b.id \/ a.Parks = b.Parks) => a = b
    /\ \A a, b \in Transports_lookup : a.GarNr = b.GarNr => a = b
    /\ \A k \in BagToSet(validacijas) : CopiesIn(k, validacijas) = 1

\* every foreign key names a stored row
ForeignKeysResolve ==
    /\ \A v \in Transports_lookup :
          /\ \E y \in TranspVeids_lookup : y.id = v.TranspVeids_id
          /\ \E p \in Parks_lookup : p.id = v.Parks_id
    /\ \A x \in Transports_Marsruts_lookup :
          /\ \E v \in Transports_lookup : v.GarNr = x.GarNr
          /\ \E n \in Marsruts_lookup : n.TMarsruts = x.TMarsruts
    /\ \A k \in BagToSet(validacijas) : \E v \in Transports_lookup : v.GarNr = k.GarNr

\* both of the two runs have ended
RaceOver == race # <<>> /\ \A i \in 1..2 : race[i].pc \in {"done", "failed"}

\* C16: when two runs of main on one warehouse, their calls interleaved in
\* any order, have both ended, both have completed without error, no table
\* holds two rows with one key, every foreign key names a stored row, and
\* when both read the same input the tables are those a single run over it
\* leaves.
C16_RacingRuns ==
    RaceOver
    => /\ \A i \in 1..2 : race[i].pc = "done" /\ race[i].error = ""
       /\ KeysUnique
       /\ ForeignKeysResolve
       /\ race[1].files = race[2].files
            => tables = LoadFrom(1, "folder", race[1].files, before).tables

\* C14: validate_downloaded_data raises on a directory with no entry, raises
\* with the count in its message on a directory with more than one entry,
\* raises when the one entry is no zip archive, and returns the path of the
\* one entry otherwise; the entries of the directory stay as they were.
C14_ArchiveValidation ==
    [][(validated.state = "none" /\ validated'.state # "none")
       => /\ download_dir' = download_dir
          /\ Cardinality(download_dir) = 0 => validated'.state = "raised"
          /\ Cardinality(download_dir) > 1
               => /\ validated'.state = "raised"
                  /\ validated'.found = Cardinality(download_dir)
          /\ \A e \in download_dir :
                download_dir = {e}
                => IF e.zip
                   THEN validated'.state = "returned" /\ validated'.path = e.name
                   ELSE validated'.state = "raised"]_vars

\* the task has raised on a directory with a zip archive and two other entries
C14_Witness ==
    /\ validated.state = "raised"
    /\ validated.found = 3
    /\ Cardinality(download_dir) = 3
    /\ \E e \in download_dir : e.zip

\* C15: check_data_encoding returns the directory it was given, unchanged,
\* when every file of it parses; otherwise it writes one file for every file
\* of the directory, under the same name and with the same text read as
\* windows-1257, into a new directory, and returns the new directory when
\* every file of it parses, and raises and returns no directory when not.
C15_EncodingFallback ==
    [][(checked.state = "none" /\ checked'.state # "none")
       => IF \A f \in dirs.extracted : Parses(f)
          THEN /\ checked'.state = "returned"
               /\ checked'.path = "extracted"
               /\ dirs' = dirs
          ELSE /\ DOMAIN dirs' = {"extracted", "converted"}
               /\ dirs'.extracted = dirs.extracted
               /\ {g.name : g \in dirs'.converted} = {f.name : f \in dirs.extracted}
               /\ Cardinality(dirs'.converted) = Cardinality(dirs.extracted)
               /\ \A f \in dirs.extracted : \E g \in dirs'.converted :
                     /\ g.name = f.name
                     /\ Utf8Decode(g.bytes) = Cp1257Decode(f.bytes)
               /\ IF \A g \in dirs'.converted : Parses(g)
                  THEN checked'.state = "returned" /\ checked'.path = "converted"
                  ELSE checked'.state = "raised" /\ checked'.path = ""]_vars

\* the task has returned the new directory for two files, one in UTF-8 and
\* one in windows-1257, both holding z-caron
C15_Witness ==
    /\ checked.state = "returned"
    /\ checked.path = "converted"
    /\ \E f, g \in dirs.extracted : f.bytes = <<197, 190>> /\ g.bytes = <<77, 254>>
    /\ \E g \in dirs.converted : g.bytes = <<77, 197, 190>>

====
